---- MODULE Spec2Model ----
(***************************************************************************)
(* One command-line invocation of gif_creator.py: argument validation,     *)
(* VideoToGifConverter construction, the --info path, the conversion plan, *)
(* VideoToGifConverter.create_gif (validation, sampling, decode loop,      *)
(* encoder selection) and the exit code.                                   *)
(*                                                                         *)
(* Times (--start, --stop, --duration) are counted in quarter seconds, so  *)
(* every time is a dyadic rational and an exact double; frame rates are    *)
(* whole numbers.  Products time * fps are then exact in double            *)
(* arithmetic.  The expressions of the form int(a * (b / c)) are not       *)
(* exact: TruncMulDiv computes them with the rounding of IEEE doubles.     *)
(***************************************************************************)
EXTENDS Integers, Sequences, FiniteSets, TLC

(* ------------------------------- bounds -------------------------------- *)
MaxTimeQ == 5
    \* --start and --stop range over 0 .. MaxTimeQ quarter seconds
MaxDurQ == 4
    \* --duration ranges over 0 .. MaxDurQ quarter seconds
MaxOutFps == 3
    \* --fps ranges over 1 .. MaxOutFps
MaxSrcFps == 3
    \* CAP_PROP_FPS ranges over 0 .. MaxSrcFps
MaxTotalFrames == 4
    \* CAP_PROP_FRAME_COUNT ranges over 0 .. MaxTotalFrames

VideoFiles == {"", "missing", "bad_suffix", "video"}
    \* the VIDEO_FILE argument: the empty string, no such path, a path with
    \* another suffix, an existing path with a video suffix
Widths == {0, 2, 300}
    \* --width; 0 stands for an absent option (None and 0 are both falsy)
Resolutions == {<<4, 1>>, <<1920, 1080>>}
    \* <<CAP_PROP_FRAME_WIDTH, CAP_PROP_FRAME_HEIGHT>>
OddSources == {[fps |-> 11, total_frames |-> 15]}
    \* a source whose duration * fps falls below total_frames in doubles

(* ------------------- double arithmetic on small integers --------------- *)
RECURSIVE Pow2Mod(_, _)
\* 2^k mod W
Pow2Mod(k, W) == IF k = 0 THEN 1 % W ELSE (2 * Pow2Mod(k - 1, W)) % W

RECURSIVE ScaleExp(_, _, _)
\* the m with W <= w * 2^m < 2W, searched from m (w, W > 0): the quotient
\* w / W lies in [2^-m, 2^(1-m)) and its 53-bit significand is
\* round(w * 2^(52+m) / W)
ScaleExp(w, W, m) ==
    IF m >= 0
    THEN IF w * (2 ^ m) < W THEN ScaleExp(w, W, m + 1)
         ELSE IF m = 0 /\ w >= 2 * W THEN ScaleExp(w, W, m - 1)
         ELSE m
    ELSE IF w >= 2 * W * (2 ^ (0 - m)) THEN ScaleExp(w, W, m - 1) ELSE m

RECURSIVE Log2Floor(_)
\* the j with 2^j <= n < 2^(j+1), n >= 1
Log2Floor(n) == IF n < 2 THEN 0 ELSE 1 + Log2Floor(n \div 2)

\* int(h * (w / W)) as Python evaluates it on doubles, for small h, w >= 0
\* and W > 0: w / W is rounded to nearest, the product is rounded to
\* nearest, int() truncates.  When h * w / W is not whole the two roundings
\* cannot cross a whole number; when it is a whole number n the result is n
\* unless the quotient was rounded down by so much that the product rounds
\* to the double below n.
TruncMulDiv(h, w, W) ==
    LET p == h * w
        n == p \div W
    IN  IF p % W # 0 \/ n = 0 THEN n
        ELSE LET m == ScaleExp(w, W, 0)
                 r == (w * Pow2Mod(52 + m, W)) % W
                 j == Log2Floor(n)
                 e == m + j
             IN  IF r = 0 \/ 2 * r >= W THEN n
                 ELSE IF n = 2 ^ j
                      THEN IF 4 * h * r <= W * (2 ^ e) THEN n ELSE n - 1
                      ELSE IF 2 * h * r <= W * (2 ^ e) THEN n ELSE n - 1

Min(a, b) == IF a <= b THEN a ELSE b

(* --------------------- VideoToGifConverter.create_gif ------------------ *)
\* stop_time is <<>> for None and <<q>> for q quarter seconds; s is the
\* converter (fps, total_frames, width, height); s.duration is the double
\* total_frames / fps.

\* lines 58-61: stop_time becomes self.duration when it is None or when
\* min(stop_time, self.duration) picks the duration
StopIsDuration(stop_time, s) ==
    \/ stop_time = <<>>
    \/ stop_time[1] * s.fps > 4 * s.total_frames

\* the check of line 62 written with > in place of >=
StartAfterStop(start_time, stop_time, s) ==
    IF StopIsDuration(stop_time, s)
    THEN start_time * s.fps > 4 * s.total_frames
    ELSE start_time > stop_time[1]

\* line 62: start_time >= stop_time, after the clamp
StartNotBeforeStop(start_time, stop_time, s) ==
    IF StopIsDuration(stop_time, s)
    THEN start_time * s.fps >= 4 * s.total_frames
    ELSE start_time >= stop_time[1]

\* line 66: int(start_time * self.fps)
start_frame(start_time, s) == (start_time * s.fps) \div 4

\* line 67: int(stop_time * self.fps)
end_frame(stop_time, s) ==
    IF StopIsDuration(stop_time, s)
    THEN TruncMulDiv(s.fps, s.total_frames, s.fps)
    ELSE (stop_time[1] * s.fps) \div 4

\* a / b rounded to the nearest whole number (halves upwards)
RoundDiv(a, b) == (2 * a + b) \div (2 * b)

\* line 68 written as the rounded product of the segment length and the fps
effective_frames_rounded(start_time, stop_time, s) ==
    LET stop4 == IF StopIsDuration(stop_time, s) THEN 4 * s.total_frames
                 ELSE stop_time[1] * s.fps
    IN  RoundDiv(stop4 - start_time * s.fps, 4)

\* line 68
effective_frames(start_time, stop_time, s) ==
    end_frame(stop_time, s) - start_frame(start_time, s)

\* lines 71-78 with round() in place of int() at line 74
ResizeTargetRounded(width, s) ==
    IF width # 0 /\ width < s.width
    THEN [resize |-> TRUE, new_width |-> width,
          new_height |-> RoundDiv(s.height * width, s.width)]
    ELSE [resize |-> FALSE, new_width |-> s.width, new_height |-> s.height]

\* lines 71-78: the resize parameters
ResizeTarget(width, s) ==
    IF width # 0 /\ width < s.width
    THEN [resize |-> TRUE, new_width |-> width,
          new_height |-> TruncMulDiv(s.height, width, s.width)]
    ELSE [resize |-> FALSE, new_width |-> s.width, new_height |-> s.height]

\* line 81: int(duration * fps)
output_frames_count(duration, fps) == (duration * fps) \div 4

\* lines 82, 86-87: frame_interval = effective_frames / output_frames_count
\* and the list of int(i * frame_interval), clamped; count > 0
frame_indices_of(first, eff, count) ==
    [k \in 1 .. count |->
        first + Min(TruncMulDiv(k - 1, eff, count), eff - 1)]

(* -------------------------------- state -------------------------------- *)
VARIABLES
    pc,            \* position of the command-line invocation
    video_file,    \* the VIDEO_FILE argument
    opts,          \* the options: duration, width, fps, start_time,
                   \* stop_time, no_optimize, info
    self,          \* the converter: fps, total_frames, width, height
    cap,           \* the cv2.VideoCapture: "none", "closed", "open", "released"
    plan,          \* locals of create_gif: start_frame, effective_frames,
                   \* output_frames_count, resize, new_width, new_height
    frame_indices, \* the sampled source indices
    reads,         \* history of cap.set + cap.read: <<frame_idx, ret>>
    frames,        \* the frame buffer: [idx, width, height]
    pil_checks,    \* number of calls of _check_pil_available
    enc_path,      \* "none", "optimized", "fallback"
    saves,         \* history of writer calls on output_path
    err,           \* the exception that ended the invocation, or "none"
    raised_at,     \* the position at which it was raised, or "none"
    exit_code      \* <<>> while running, <<code>> once exited

vars == <<pc, video_file, opts, self, cap, plan, frame_indices, reads,
          frames, pil_checks, enc_path, saves, err, raised_at, exit_code>>

NoConverter == [fps |-> 0, total_frames |-> 0, width |-> 0, height |-> 0]
NoPlan == [start_frame |-> 0, effective_frames |-> 0,
           output_frames_count |-> 0, resize |-> FALSE,
           new_width |-> 0, new_height |-> 0]

StopTimes == {<<>>} \cup {<<q>> : q \in 0 .. MaxTimeQ}

Options ==
    [duration : 0 .. MaxDurQ, width : Widths, fps : 1 .. MaxOutFps,
     start_time : 0 .. MaxTimeQ, stop_time : StopTimes,
     no_optimize : BOOLEAN, info : BOOLEAN]

Sources ==
    [fps : 0 .. MaxSrcFps, total_frames : 0 .. MaxTotalFrames] \cup OddSources

Init ==
    /\ pc = "validate_video_file"
    /\ video_file \in VideoFiles
    /\ opts \in Options
    /\ self = NoConverter
    /\ cap = "none"
    /\ plan = NoPlan
    /\ frame_indices = <<>>
    /\ reads = <<>>
    /\ frames = <<>>
    /\ pil_checks = 0
    /\ enc_path = "none"
    /\ saves = <<>>
    /\ err = "none"
    /\ raised_at = "none"
    /\ exit_code = <<>>

(* ------------------------------- actions ------------------------------- *)
\* lines 262-264: except Exception -> message on stderr, sys.exit(1)
\* an except clause that prints the message and returns
RaiseAndReturn(at, e) ==
    /\ pc' = "exited"
    /\ err' = e
    /\ raised_at' = at
    /\ exit_code' = <<0>>

\* for an exception e raised at position at
Raise(at, e) ==
    /\ pc' = "exited"
    /\ err' = e
    /\ raised_at' = at
    /\ exit_code' = <<1>>

\* lines 154-166: the argument callback; it lets an empty value through;
\* click turns BadParameter into a usage error and exit code 2, before the
\* command body runs
validate_video_file ==
    /\ pc = "validate_video_file"
    /\ IF video_file \in {"missing", "bad_suffix"}
       THEN /\ pc' = "exited"
            /\ err' = "BadParameter"
            /\ raised_at' = "validate_video_file"
            /\ exit_code' = <<2>>
       ELSE /\ pc' = "construct"
            /\ UNCHANGED <<err, raised_at, exit_code>>
    /\ UNCHANGED <<video_file, opts, self, cap, plan, frame_indices, reads,
                   frames, pil_checks, enc_path, saves>>

\* lines 22-33 (called at line 199): open the capture, read its properties;
\* a capture of the empty path does not open
VideoToGifConverter_init ==
    /\ pc = "construct"
    /\ \E opened \in IF video_file = "" THEN {FALSE} ELSE BOOLEAN,
          src \in Sources, res \in Resolutions :
         IF ~opened
         THEN /\ cap' = "closed"
              /\ self' = self
              /\ Raise("construct", "ValueError")
         ELSE /\ cap' = "open"
              /\ IF src.fps = 0
                 THEN /\ self' = [fps |-> 0, total_frames |-> src.total_frames,
                                  width |-> res[1], height |-> res[2]]
                      /\ Raise("construct", "ZeroDivisionError")
                 ELSE /\ self' = [fps |-> src.fps,
                                  total_frames |-> src.total_frames,
                                  width |-> res[1], height |-> res[2]]
                      /\ pc' = "command"
                      /\ UNCHANGED <<err, raised_at, exit_code>>
    /\ UNCHANGED <<video_file, opts, plan, frame_indices, reads, frames,
                   pil_checks, enc_path, saves>>

\* lines 202-210: --info prints the properties and returns
ShowInfo ==
    /\ pc = "command"
    /\ opts.info
    /\ pc' = "exited"
    /\ exit_code' = <<0>>
    /\ UNCHANGED <<video_file, opts, self, cap, plan, frame_indices, reads,
                   frames, pil_checks, enc_path, saves, err, raised_at>>

\* lines 212-232: the conversion plan; speed_factor divides by --duration
ShowPlan ==
    /\ pc = "command"
    /\ ~opts.info
    /\ IF opts.duration = 0
       THEN Raise("command", "ZeroDivisionError")
       ELSE /\ pc' = "create_gif"
            /\ UNCHANGED <<err, raised_at, exit_code>>
    /\ UNCHANGED <<video_file, opts, self, cap, plan, frame_indices, reads,
                   frames, pil_checks, enc_path, saves>>

\* lines 57-87: validate the range, compute the resize target and the
\* sampled indices
create_gif_sample ==
    /\ pc = "create_gif"
    /\ IF StartNotBeforeStop(opts.start_time, opts.stop_time, self)
       THEN /\ Raise("create_gif", "ValueError")
            /\ UNCHANGED <<plan, frame_indices>>
       ELSE LET first == start_frame(opts.start_time, self)
                eff == effective_frames(opts.start_time, opts.stop_time, self)
                rt == ResizeTarget(opts.width, self)
                count == output_frames_count(opts.duration, opts.fps)
            IN  /\ plan' = [start_frame |-> first, effective_frames |-> eff,
                            output_frames_count |-> count,
                            resize |-> rt.resize, new_width |-> rt.new_width,
                            new_height |-> rt.new_height]
                /\ IF count = 0
                   THEN /\ Raise("create_gif", "ZeroDivisionError")
                        /\ UNCHANGED frame_indices
                   ELSE /\ frame_indices' = frame_indices_of(first, eff, count)
                        /\ pc' = "frames"
                        /\ UNCHANGED <<err, raised_at, exit_code>>
    /\ UNCHANGED <<video_file, opts, self, cap, reads, frames, pil_checks,
                   enc_path, saves>>

\* a loop that is left after its first iteration
FirstIndexRead == Len(reads) >= 1 \/ frame_indices = <<>>

\* the position of the decode loop: every sampled index has been read
AllIndicesRead == Len(reads) = Len(frame_indices)

\* the decode loop with a failed read raising instead of being skipped
ProcessFrameAbort ==
    /\ pc = "frames"
    /\ ~AllIndicesRead
    /\ LET frame_idx == frame_indices[Len(reads) + 1]
       IN  \E ret \in BOOLEAN :
             /\ reads' = Append(reads, <<frame_idx, ret>>)
             /\ IF ~ret \/ (plan.resize /\ (plan.new_width <= 0 \/ plan.new_height <= 0))
                THEN /\ Raise("frames", "cv2.error")
                     /\ UNCHANGED frames
                ELSE /\ frames' = Append(frames,
                            [idx |-> frame_idx, width |-> plan.new_width,
                             height |-> plan.new_height])
                     /\ UNCHANGED <<pc, err, raised_at, exit_code>>
    /\ UNCHANGED <<video_file, opts, self, cap, plan, frame_indices,
                   pil_checks, enc_path, saves>>

\* lines 90-105: one iteration of the decode loop: seek, read, skip the
\* frame when the read fails, else convert, resize and append.  cv2.resize
\* rejects a target size with a component that is not positive.
ProcessFrame ==
    /\ pc = "frames"
    /\ ~AllIndicesRead
    /\ LET frame_idx == frame_indices[Len(reads) + 1]
       IN  \E ret \in BOOLEAN :
             /\ reads' = Append(reads, <<frame_idx, ret>>)
             /\ IF ~ret
                THEN UNCHANGED <<frames, pc, err, raised_at, exit_code>>
                ELSE IF plan.resize /\ (plan.new_width <= 0 \/ plan.new_height <= 0)
                THEN /\ Raise("frames", "cv2.error")
                     /\ UNCHANGED frames
                ELSE /\ frames' = Append(frames,
                            [idx |-> frame_idx, width |-> plan.new_width,
                             height |-> plan.new_height])
                     /\ UNCHANGED <<pc, err, raised_at, exit_code>>
    /\ UNCHANGED <<video_file, opts, self, cap, plan, frame_indices,
                   pil_checks, enc_path, saves>>

\* line 109: frame_duration = 1.0 / fps, in seconds, as <<numerator,
\* denominator>>
frame_duration(fps) == <<1, fps>>

\* Image.save given the duration in seconds
save_optimized_gif_seconds(fs, fd) ==
    [writer |-> "PIL", frames |-> fs, duration |-> fd, loop |-> 0,
     optimize |-> TRUE]

\* lines 134-142: the call of PIL's Image.save
save_optimized_gif(fs, fd) ==
    [writer |-> "PIL", frames |-> fs, duration |-> <<fd[1] * 1000, fd[2]>>,
     loop |-> 0, optimize |-> TRUE]

\* line 114: the call of imageio.mimsave
mimsave(fs, fd) ==
    [writer |-> "imageio", frames |-> fs, duration |-> fd, loop |-> 0,
     optimize |-> FALSE]

\* lines 107-116, 118-124, 126-142: choose the writer and write the file.
\* pil is the outcome of the import in _check_pil_available, which runs only
\* when optimize is set; written tells whether the writer completes (an
\* unwritable destination, or imageio given no frame, makes it raise).
\* pil_frames[0] raises IndexError on an empty buffer before Image.save.
Encode ==
    /\ pc = "frames"
    /\ AllIndicesRead
    /\ \E pil \in BOOLEAN, written \in BOOLEAN :
         LET optimize == ~opts.no_optimize
             fd == frame_duration(opts.fps)
         IN  /\ pil_checks' = IF optimize THEN pil_checks + 1 ELSE pil_checks
             /\ IF optimize /\ pil
                THEN /\ enc_path' = "optimized"
                     /\ IF frames = <<>>
                        THEN /\ Raise("encode", "IndexError")
                             /\ UNCHANGED saves
                        ELSE /\ saves' = Append(saves,
                                    [call |-> save_optimized_gif(frames, fd),
                                     written |-> written])
                             /\ IF written
                                THEN /\ pc' = "report"
                                     /\ UNCHANGED <<err, raised_at, exit_code>>
                                ELSE Raise("encode", "OSError")
                ELSE /\ enc_path' = "fallback"
                     /\ saves' = Append(saves,
                            [call |-> mimsave(frames, fd), written |-> written])
                     /\ IF written
                        THEN /\ pc' = "report"
                             /\ UNCHANGED <<err, raised_at, exit_code>>
                        ELSE Raise("encode", "OSError")
    /\ UNCHANGED <<video_file, opts, self, cap, plan, frame_indices, reads,
                   frames>>

\* lines 245-260: report the size of the written file and return
Report ==
    /\ pc = "report"
    /\ pc' = "exited"
    /\ exit_code' = <<0>>
    /\ UNCHANGED <<video_file, opts, self, cap, plan, frame_indices, reads,
                   frames, pil_checks, enc_path, saves, err, raised_at>>

\* lines 35-37: __del__ releases the capture.  Nothing in create_gif or in
\* the command calls it or release(): it runs when the interpreter collects
\* the converter, which the command's local variable keeps alive until the
\* command has ended, and it may not run at all.
VideoToGifConverter_del ==
    /\ pc = "exited"
    /\ cap \in {"open", "closed"}
    /\ cap' = "released"
    /\ UNCHANGED <<pc, video_file, opts, self, plan, frame_indices, reads,
                   frames, pil_checks, enc_path, saves, err, raised_at,
                   exit_code>>

Next ==
    \/ validate_video_file
    \/ VideoToGifConverter_init
    \/ ShowInfo
    \/ ShowPlan
    \/ create_gif_sample
    \/ ProcessFrame
    \/ Encode
    \/ Report
    \/ VideoToGifConverter_del

Spec == Init /\ [][Next]_vars

(* ------------------------- notions used by the claims ------------------ *)
\* create_gif was called and its range check and sampling (lines 57-87)
\* have run
SamplingRan ==
    \/ pc \in {"frames", "report"}
    \/ pc = "exited" /\ raised_at \in {"create_gif", "frames"}
    \/ pc = "exited" /\ err = "none" /\ ~opts.info

\* start_time * fps, and the stop time after defaulting and clamping times
\* fps, both in quarter frames, in exact arithmetic
StartQF == opts.start_time * self.fps
StopQF ==
    IF opts.stop_time = <<>> THEN 4 * self.total_frames
    ELSE Min(opts.stop_time[1] * self.fps, 4 * self.total_frames)

\* startTime < stopTime after clamping, outputDuration > 0, outputFps > 0
ValidRequest == StartQF < StopQF /\ opts.duration > 0 /\ opts.fps > 0

\* floor(outputDuration * outputFps)
FloorDurationFps == (opts.duration * opts.fps) \div 4

\* the range check passed and lines 65-81 computed the plan
PlanComputed == SamplingRan /\ ~(err = "ValueError" /\ raised_at = "create_gif")

IsRead(r) == r[2]
FailedReads == {k \in 1 .. Len(reads) : ~reads[k][2]}

\* the encoder stage (line 107 onwards) was reached
EncoderReached == enc_path # "none"

(* -------------------------------- claims ------------------------------- *)

\* C1: for every valid request the index list has exactly
\* floor(outputDuration * outputFps) entries, every entry lies in
\* [startFrame, startFrame + effectiveFrames) with startFrame =
\* floor(startTime * fps), and the entries are non-decreasing; short segments
\* whose start and stop fall into the same source frame included.
C1_SamplerContract ==
    (SamplingRan /\ ValidRequest) =>
        /\ Len(frame_indices) = FloorDurationFps
        /\ \A k \in 1 .. Len(frame_indices) :
             /\ frame_indices[k] >= StartQF \div 4
             /\ frame_indices[k] < StartQF \div 4 + plan.effective_frames
        /\ \A k \in 1 .. Len(frame_indices) - 1 :
             frame_indices[k] <= frame_indices[k + 1]

\* C2: the capture handle has been released by the time the command has
\* finished handling the conversion, on every exit path (normal completion,
\* range error, any other error, --info).
C2_ReleasedOnEveryExit ==
    pc = "exited" => cap # "open"

\* C3: whenever start_time >= stop_time after stop_time was defaulted to the
\* duration and clamped to it, create_gif raises the validation error before
\* any index is computed, before any seek or read, before the capability
\* check, the encoder or the output file is touched, and the command exits
\* with a non-zero code.
C3_RangeErrorFirst ==
    (SamplingRan /\ StartQF >= StopQF) =>
        /\ pc = "exited"
        /\ err = "ValueError"
        /\ raised_at = "create_gif"
        /\ plan = NoPlan
        /\ frame_indices = <<>>
        /\ reads = <<>>
        /\ frames = <<>>
        /\ pil_checks = 0
        /\ enc_path = "none"
        /\ saves = <<>>
        /\ exit_code = <<1>>

C3_Witness ==
    /\ pc = "exited"
    /\ err = "ValueError"
    /\ raised_at = "create_gif"
    /\ opts.stop_time # <<>>
    /\ opts.start_time = opts.stop_time[1]
    /\ opts.start_time > 0

\* C4: a failed read never ends the conversion, every sampled index is read
\* once and in order, and the buffer the encoder receives is the sampled
\* sequence without the failed positions: its length is
\* floor(duration * fps) minus the number of failed reads and its frames keep
\* the order of their indices.
C4_FailedReadsSkipped ==
    /\ (pc = "exited" /\ raised_at = "frames") => reads[Len(reads)][2]
    /\ \A k \in 1 .. Len(reads) :
         k <= Len(frame_indices) /\ reads[k][1] = frame_indices[k]
    /\ EncoderReached =>
         LET kept == SelectSeq(reads, IsRead)
         IN  /\ Len(reads) = FloorDurationFps
             /\ Len(frames) = FloorDurationFps - Cardinality(FailedReads)
             /\ Len(frames) = Len(kept)
             /\ \A k \in 1 .. Len(frames) : frames[k].idx = kept[k][1]
             /\ \A k \in 1 .. Len(saves) : saves[k].call.frames = frames

C4_Witness ==
    /\ EncoderReached
    /\ Len(saves) = 1
    /\ Len(reads) = 3
    /\ ~reads[2][2]
    /\ Len(frames) = 2

\* C5: output_path is written at most once, only by the encoder after the
\* last sampled index has been processed, and never in an execution that
\* fails before that point.
C5_WriteAfterAssembly ==
    /\ Len(saves) <= 1
    /\ saves # <<>> =>
         /\ pc \in {"report", "exited"}
         /\ raised_at \notin {"validate_video_file", "construct", "command",
                              "create_gif", "frames"}
         /\ Len(reads) = Len(frame_indices)
         /\ Len(reads) = FloorDurationFps
    /\ pc \in {"validate_video_file", "construct", "command", "create_gif",
               "frames"} => saves = <<>>

C5_Witness ==
    /\ pc = "report"
    /\ Len(saves) = 1
    /\ saves[1].written
    /\ Len(reads) = 3
    /\ Len(frames) = 3

\* the number of units of the writer's duration parameter in one second
UnitsPerSecond(writer) == IF writer = "PIL" THEN 1000 ELSE 1

Narrower == opts.width # 0 /\ opts.width < self.width

\* C7 as stated: when maxWidth is set and below the source width, every
\* output frame has width maxWidth and height
\* round(sourceHeight * maxWidth / sourceWidth)
C7_HeightRounded ==
    Narrower =>
        \A k \in 1 .. Len(frames) :
            /\ frames[k].width = opts.width
            /\ frames[k].height = RoundDiv(self.height * opts.width, self.width)

\* C7 amended: when maxWidth is set and below the source width, every output
\* frame has width maxWidth and a height h obtained by truncation:
\* h <= sourceHeight * maxWidth / sourceWidth <= h + 1, the right-hand
\* equality only when the quotient is whole and its double falls below it;
\* 300 on 1920x1080 gives 300x168.
C7_HeightTruncated ==
    Narrower =>
        \A k \in 1 .. Len(frames) :
            LET h == frames[k].height
                p == self.height * opts.width
            IN  /\ frames[k].width = opts.width
                /\ h * self.width <= p
                /\ p <= (h + 1) * self.width
                /\ p = (h + 1) * self.width => p % self.width = 0
                /\ (self.width = 1920 /\ self.height = 1080 /\ opts.width = 300)
                      => h = 168

C7_Witness ==
    /\ Narrower
    /\ self.width = 1920
    /\ opts.width = 300
    /\ Len(frames) = 2
    /\ frames[1].height = 168

\* the outcomes of the command
InfoShown ==
    /\ opts.info
    /\ cap \in {"open", "released"}
    /\ err = "none"
    /\ plan = NoPlan
    /\ frame_indices = <<>>
    /\ reads = <<>>
    /\ frames = <<>>
    /\ enc_path = "none"
    /\ saves = <<>>

ConversionSucceeded ==
    /\ ~opts.info
    /\ err = "none"
    /\ Len(reads) = Len(frame_indices)
    /\ Len(saves) = 1
    /\ saves[1].written

\* C8: the command exits with 0 exactly when the conversion succeeded or
\* --info displayed the metadata (and then nothing was sampled, decoded or
\* written); a missing file, a wrong suffix, a start not before the stop, a
\* source that does not open and a failed conversion or write all exit with
\* a non-zero code.
C8_ExitCodes ==
    /\ pc # "exited" => exit_code = <<>> /\ err = "none"
    /\ pc = "exited" =>
         /\ exit_code \in {<<0>>, <<1>>, <<2>>}
         /\ exit_code = <<0>> <=> (InfoShown \/ ConversionSucceeded)
         /\ err # "none" => exit_code # <<0>>
         /\ video_file \in {"missing", "bad_suffix"} => exit_code # <<0>>
         /\ cap = "closed" => exit_code # <<0>>
         /\ (SamplingRan /\ StartQF >= StopQF) => exit_code # <<0>>
         /\ (\E k \in 1 .. Len(saves) : ~saves[k].written) => exit_code # <<0>>

C8_Witness ==
    /\ pc = "exited"
    /\ exit_code = <<1>>
    /\ err = "OSError"
    /\ enc_path = "fallback"
    /\ Len(frames) = 1

\* C9: when floor(outputDuration * outputFps) is 0 and start < stop, the
\* frame-interval computation does not fail: the sampler yields an empty
\* index sequence and the encoder is reached with an empty frame sequence.
C9_ZeroCountReachesEncoder ==
    (SamplingRan /\ StartQF < StopQF /\ FloorDurationFps = 0) =>
        /\ ~(err = "ZeroDivisionError" /\ raised_at = "create_gif")
        /\ frame_indices = <<>>
        /\ pc = "exited" => EncoderReached /\ frames = <<>>

\* (stopTime - startTime) * fps in quarter frames, after clamping
SpanQF == StopQF - StartQF

\* C10 as stated, for stop times given on the grid and within the source:
\* the effective frame count is round((stopTime - startTime) * fps) (either
\* way of rounding a half is accepted)
C10_EffectiveRounded ==
    (PlanComputed /\ opts.stop_time # <<>>
        /\ opts.stop_time[1] * self.fps <= 4 * self.total_frames) =>
        plan.effective_frames \in {(SpanQF + 2) \div 4, (SpanQF + 1) \div 4}

\* C10 amended: the effective frame count is floor(stopTime * fps) -
\* floor(startTime * fps), each product truncated on its own, so it is
\* floor((stopTime - startTime) * fps) or one more; when stopTime is the
\* source duration, floor(duration * fps) is frameCount or, by the rounding
\* of doubles, frameCount - 1.
C10_EffectiveFloorDifference ==
    PlanComputed =>
        LET eff == plan.effective_frames
            first == StartQF \div 4
        IN  /\ plan.start_frame = first
            /\ IF opts.stop_time # <<>>
                  /\ opts.stop_time[1] * self.fps <= 4 * self.total_frames
               THEN /\ eff = (opts.stop_time[1] * self.fps) \div 4 - first
                    /\ eff \in {SpanQF \div 4, SpanQF \div 4 + 1}
               ELSE eff \in {self.total_frames - first,
                             self.total_frames - 1 - first}
            /\ eff >= 0

C10_Witness ==
    /\ PlanComputed
    /\ opts.stop_time # <<>>
    /\ SpanQF = 3
    /\ StartQF % 4 = 0
    /\ plan.effective_frames = 0
    /\ pc = "frames"
====
